---- MODULE Spec2Model ----
(***************************************************************************)
(* Model of ix::CobraBot::run (ixbots/IXCobraBot.cpp).                     *)
(*                                                                         *)
(* Five threads of control take part in a run:                             *)
(*   - the orchestrator (the body of run(): supervision loop, cleanup),    *)
(*   - t1, the progress logger (the `timer` lambda),                       *)
(*   - t2, the heartbeat watchdog (the `heartbeat` lambda),                *)
(*   - t3, the dispatch loop (the `sender` lambda),                        *)
(*   - the transport's callback thread, which runs the event callback and  *)
(*     the subscribe callback.                                             *)
(* Every access to one of the std::atomic variables is one step.           *)
(*                                                                         *)
(* QueueManager (IXQueueManager.h) and CobraConnection are not part of the *)
(* sources at hand.  The queue is modelled from its written contract       *)
(* (bounded FIFO, drop-oldest, atomic non-blocking add and pop); the       *)
(* transport delivers one callback at a time and disconnect() returns      *)
(* only when no callback is running, after which none is started.          *)
(*                                                                         *)
(* Spec is a run of the bot, in which add and pop are single steps.        *)
(* LiveSpec is a one-tick run under fair scheduling.  QueueSpec is the     *)
(* queue alone, guarded by a mutex, used by several producers and one      *)
(* consumer, whose operations are made of several steps.                   *)
(***************************************************************************)
EXTENDS Integers, Sequences, FiniteSets, TLC

\* ------------------------------------------------------------------ bounds
MaxRuntime == 2       \* largest bounded runtime in seconds; ticks counted in an unbounded run
MaxQueueSize == 2     \* largest queue capacity
MaxMsgs == 2          \* inbound messages published in a run without heartbeat
MaxHeartbeatMsgs == 1 \* inbound messages published in a run with heartbeat
MaxSubscribes == 1    \* Authenticated events the transport delivers
MaxLiveMsgs == 1      \* inbound messages published in a run checked for termination
MaxProducers == 2     \* threads calling add() on the queue taken alone
MaxQmAdds == 3        \* add() calls made on the queue taken alone
MaxQmPops == 2        \* pop() calls made on the queue taken alone

\* --------------------------------------------------------------- constants
Null == 0             \* Json::Value() : the empty marker returned by pop()
Forever == -1         \* runtime == -1 : run forever
Consumer == 0         \* the one thread that calls pop() (t3); producers are 1, 2, ...

TransientEvents ==
    {"Open", "Closed", "Subscribed", "UnSubscribed", "Error", "Published", "Pong"}
FatalEvents == {"HandshakeError", "AuthenticationError", "SubscriptionError"}
EventTypes == TransientEvents \cup {"Authenticated"} \cup FatalEvents

VARIABLES
    \* arguments of run(), the registered sink, and the number of messages
    \* the channel publishes during the run
    runtime, enableHeartbeat, maxQueueSize, callbackSet, feed,
    \* the atomics declared in run()
    sentCount, receivedCount, stop, throttled, fatalCobraError,
    \* QueueManager contents, head first
    queue,
    \* QueueManager's synchronisation: who holds its mutex, and where each
    \* caller of add() or pop() stands (idle in a run of the bot, whose steps
    \* take add and pop as atomic)
    qm,
    \* orchestrator: position, loop variable of the bounded loop, result
    pcRun, i, retval,
    \* progress logger
    timerPc,
    \* heartbeat watchdog: position, `ss` being built, `state`
    hbPc, ss, state,
    \* dispatch loop: position and the popped `msg`
    senderPc, msg,
    \* transport: connection, registration, subscription, callback position,
    \* inbound message being handled
    connected, callbackRegistered, subscribed, tPc, inMsg,
    \* how the process ended, if it was ended from inside
    exited,
    \* history of the run (bookkeeping only, never read by the program)
    hist

cfgVars == <<runtime, enableHeartbeat, maxQueueSize, callbackSet, feed>>
atomicVars == <<sentCount, receivedCount, stop, throttled, fatalCobraError>>
runVars == <<pcRun, i, retval>>
hbVars == <<hbPc, ss, state>>
senderVars == <<senderPc, msg>>
transportVars == <<connected, callbackRegistered, subscribed, tPc, inMsg>>

vars == <<cfgVars, atomicVars, queue, qm, runVars, timerPc, hbVars, senderVars,
          transportVars, exited, hist>>

\* ----------------------------------------------------------------- helpers
Min(a, b) == IF a < b THEN a ELSE b

Max(a, b) == IF a > b THEN a ELSE b

\* the last n elements of s (all of s when it is shorter)
LastN(s, n) == SubSeq(s, Max(1, Len(s) - n + 1), Len(s))

DigitChar == <<"0", "1", "2", "3", "4", "5", "6", "7", "8", "9">>

RECURSIVE Decimal(_)
\* operator<< of an unsigned integer: its decimal digits
Decimal(n) ==
    IF n < 10 THEN <<DigitChar[n + 1]>>
    ELSE Append(Decimal(n \div 10), DigitChar[(n % 10) + 1])

\* the process is still running
Alive == exited = "no"

\* ------------------------------------------------------------ QueueManager
\* (variant) add that refuses the new message when the queue is full
QueueAdd_DropNewest(q, cap, m) ==
    IF Len(q) >= cap THEN q ELSE Append(q, m)

\* QueueManager::add : insert at the tail, evicting the head when full
QueueAdd(q, cap, m) ==
    IF Len(q) >= cap THEN Append(Tail(q), m) ELSE Append(q, m)

\* (variant) pop that returns the newest message
QueueFront_Newest(q) == IF q = <<>> THEN Null ELSE q[Len(q)]

\* QueueManager::pop : the head, or the empty marker
QueueFront(q) == IF q = <<>> THEN Null ELSE Head(q)

QueuePopped(q) == IF q = <<>> THEN q ELSE Tail(q)

\* (variant) the queue built one slot too large
QueueCapacity_OffByOne == maxQueueSize + 1

\* QueueManager queueManager(maxQueueSize) : the capacity the queue is built with
QueueCapacity == maxQueueSize

\* -------------------------------------------------------------------- Init
InitHist ==
    [ nextMsg |-> 1,            \* id of the next inbound message
      addLog |-> <<>>,          \* messages handed to add(), in order
      popLog |-> <<>>,          \* messages returned by pop(), in order
      evicted |-> 0,            \* messages evicted by add()
      discarded |-> 0,          \* messages popped and dropped on `stop`
      sinkCalls |-> 0,          \* sink invocations
      sinkLog |-> <<>>,         \* messages passed to the sink, in order
      unhandled |-> 0,          \* messages popped with no sink registered
      sinkTrue |-> 0,           \* sink invocations that returned true
      dropped |-> 0,            \* inbound messages dropped by the throttle check
      throttledEver |-> FALSE,  \* the sink has set throttled to true
      lateAdmits |-> 0,         \* messages counted since throttled was last written true
      fatalDelivered |-> FALSE, \* a fatal event was handed to the event callback
      ticks |-> 0,              \* one-second ticks of the supervision loop
      exitByFatal |-> FALSE,    \* the supervision loop left through `break`
      subscribes |-> 0,         \* conn.subscribe() calls
      authEvents |-> 0,         \* Authenticated events handed to the event callback
      readR |-> -1,             \* receivedCount as read at the watchdog's current tick
      snapR |-> -1,             \* receivedCount in the watchdog's previous snapshot
      snapS |-> -1 ]            \* sentCount in the watchdog's previous snapshot

QmThreads == {Consumer} \cup (1..MaxProducers)

\* the queue's synchronisation with no call in progress
QmIdle ==
    [ holder |-> {},                          \* threads holding the mutex
      pc |-> [t \in QmThreads |-> "idle"],    \* position of each caller
      arg |-> [t \in QmThreads |-> Null],     \* the message an add() was given
      res |-> Null,                           \* what the last pop() returned
      next |-> 1,                             \* id of the next message added
      pops |-> 0,                             \* pop() calls made
      abs |-> <<>>,                           \* the queue after the operations that took effect, applied one at a time
      expect |-> Null ]                       \* what pop() returns when applied to abs

\* the state of run() once t1, t2 and t3 are started (up to line 115)
InitProgram ==
    /\ qm = QmIdle
    /\ sentCount = 0
    /\ receivedCount = 0
    /\ stop = FALSE
    /\ throttled = FALSE
    /\ fatalCobraError = FALSE
    /\ queue = <<>>
    /\ pcRun = "setEventCallback"
    /\ i = 0
    /\ retval = 0
    /\ timerPc = "loop"
    /\ hbPc = "start"
    /\ ss = <<>>
    /\ state = <<"na">>
    /\ senderPc = "pop"
    /\ msg = Null
    /\ connected = TRUE
    /\ callbackRegistered = FALSE
    /\ subscribed = FALSE
    /\ tPc = "idle"
    /\ inMsg = Null
    /\ exited = "no"
    /\ hist = InitHist

\* The runs checked: every runtime and queue capacity within the bounds, with
\* and without a registered sink, the heartbeat disabled; and, with the
\* heartbeat enabled, a registered sink and a queue of one.
Init ==
    /\ runtime \in {Forever} \cup (0..MaxRuntime)
    /\ enableHeartbeat \in BOOLEAN
    /\ maxQueueSize \in (IF enableHeartbeat THEN {1} ELSE 1..MaxQueueSize)
    /\ callbackSet \in (IF enableHeartbeat THEN {TRUE} ELSE BOOLEAN)
    /\ feed = IF enableHeartbeat THEN MaxHeartbeatMsgs ELSE MaxMsgs
    /\ InitProgram

\* ------------------------------------------------------------ orchestrator
\* conn.setEventCallback(...)
SetEventCallback ==
    /\ Alive /\ pcRun = "setEventCallback"
    /\ callbackRegistered' = TRUE
    /\ pcRun' = "supervise"
    /\ UNCHANGED <<cfgVars, qm, atomicVars, queue, i, retval, timerPc, hbVars,
                   senderVars, connected, subscribed, tPc, inMsg, exited, hist>>

\* the bounded loop's condition fails: for (int i = 0; i < runtime; ++i)
SuperviseDone ==
    /\ Alive /\ pcRun = "supervise"
    /\ runtime # Forever /\ ~(i < runtime)
    /\ pcRun' = "disconnect"
    /\ UNCHANGED <<cfgVars, qm, atomicVars, queue, i, retval, timerPc, hbVars,
                   senderVars, transportVars, exited, hist>>

\* the tick count after one more tick (counted up to MaxRuntime in an unbounded run)
NextTick(t) == IF runtime = Forever THEN Min(t + 1, MaxRuntime) ELSE t + 1

\* (variant) a supervision loop that never breaks
BreakOnFatal_Never == FALSE

\* the condition of `if (fatalCobraError) break;`
BreakOnFatal == fatalCobraError

\* one iteration of either loop: sleep one second, then `if (fatalCobraError) break;`
SuperviseTick ==
    /\ Alive /\ pcRun = "supervise"
    /\ runtime = Forever \/ i < runtime
    /\ IF BreakOnFatal
       THEN /\ pcRun' = "disconnect"
            /\ i' = i
            /\ hist' = [hist EXCEPT !.ticks = NextTick(@),
                                    !.exitByFatal = TRUE]
       ELSE /\ pcRun' = "supervise"
            /\ i' = IF runtime = Forever THEN i ELSE i + 1
            /\ hist' = [hist EXCEPT !.ticks = NextTick(@)]
    /\ UNCHANGED <<cfgVars, qm, atomicVars, queue, retval, timerPc, hbVars,
                   senderVars, transportVars, exited>>

\* conn.disconnect() : returns once no callback is running
Disconnect ==
    /\ Alive /\ pcRun = "disconnect"
    /\ tPc = "idle"
    /\ connected' = FALSE
    /\ pcRun' = "setStop"
    /\ UNCHANGED <<cfgVars, qm, atomicVars, queue, i, retval, timerPc, hbVars,
                   senderVars, callbackRegistered, subscribed, tPc, inMsg,
                   exited, hist>>

\* stop = true
SetStop ==
    /\ Alive /\ pcRun = "setStop"
    /\ stop' = TRUE
    /\ pcRun' = "joinTimer"
    /\ UNCHANGED <<cfgVars, qm, sentCount, receivedCount, throttled, fatalCobraError,
                   queue, i, retval, timerPc, hbVars, senderVars, transportVars,
                   exited, hist>>

\* t1.join()
JoinTimer ==
    /\ Alive /\ pcRun = "joinTimer"
    /\ timerPc = "done"
    /\ pcRun' = "joinHeartbeat"
    /\ UNCHANGED <<cfgVars, qm, atomicVars, queue, i, retval, timerPc, hbVars,
                   senderVars, transportVars, exited, hist>>

\* if (t2.joinable()) t2.join()
JoinHeartbeat ==
    /\ Alive /\ pcRun = "joinHeartbeat"
    /\ hbPc = "done"
    /\ pcRun' = "joinSender"
    /\ UNCHANGED <<cfgVars, qm, atomicVars, queue, i, retval, timerPc, hbVars,
                   senderVars, transportVars, exited, hist>>

\* (variant) a join that does not wait for the dispatch loop
SenderJoined_NoWait == TRUE

\* t3.join() returns when the sender lambda has returned
SenderJoined == senderPc = "done"

\* t3.join()
JoinSender ==
    /\ Alive /\ pcRun = "joinSender"
    /\ SenderJoined
    /\ pcRun' = "return"
    /\ UNCHANGED <<cfgVars, qm, atomicVars, queue, i, retval, timerPc, hbVars,
                   senderVars, transportVars, exited, hist>>

\* (variant) a return that ignores fatalCobraError
ReturnValue_NoFatal == sentCount

\* the value of `fatalCobraError ? -1 : (int64_t) sentCount`
ReturnValue == IF fatalCobraError THEN -1 ELSE sentCount

\* return fatalCobraError ? -1 : (int64_t) sentCount
Return ==
    /\ Alive /\ pcRun = "return"
    /\ retval' = ReturnValue
    /\ pcRun' = "done"
    /\ UNCHANGED <<cfgVars, qm, atomicVars, queue, i, timerPc, hbVars,
                   senderVars, transportVars, exited, hist>>

\* --------------------------------------------------------- progress logger
\* (variant) a progress logger that never looks at stop
TimerContinues_Always == TRUE

\* the condition of `while (!stop)` in the timer lambda
TimerContinues == ~stop

\* one pass of `while (!stop) { spdlog::info(...); sleep_for(1s); }`
TimerLoop ==
    /\ Alive /\ timerPc = "loop"
    /\ timerPc' = IF TimerContinues THEN "loop" ELSE "done"
    /\ UNCHANGED <<cfgVars, qm, atomicVars, queue, runVars, hbVars, senderVars,
                   transportVars, exited, hist>>

\* ------------------------------------------------------ heartbeat watchdog
\* (variant) a watchdog that runs whatever enableHeartbeat says
HeartbeatDisabled_Never == FALSE

\* the condition of `if (!enableHeartbeat) return;`
HeartbeatDisabled == ~enableHeartbeat

\* std::string state("na"); if (!enableHeartbeat) return;
HeartbeatStart ==
    /\ Alive /\ hbPc = "start"
    /\ hbPc' = IF HeartbeatDisabled THEN "done" ELSE "check"
    /\ UNCHANGED <<cfgVars, qm, atomicVars, queue, runVars, timerPc, ss, state,
                   senderVars, transportVars, exited, hist>>

\* while (!stop)
HeartbeatCheck ==
    /\ Alive /\ hbPc = "check"
    /\ hbPc' = IF stop THEN "done" ELSE "readReceived"
    /\ UNCHANGED <<cfgVars, qm, atomicVars, queue, runVars, timerPc, ss, state,
                   senderVars, transportVars, exited, hist>>

\* ss << "messages received " << receivedCount;
HeartbeatReadReceived ==
    /\ Alive /\ hbPc = "readReceived"
    /\ ss' = <<"messages received ">> \o Decimal(receivedCount)
    /\ hbPc' = "readSent"
    /\ hist' = [hist EXCEPT !.readR = receivedCount]
    /\ UNCHANGED <<cfgVars, qm, atomicVars, queue, runVars, timerPc, state,
                   senderVars, transportVars, exited>>

\* (variant) a snapshot that leaves out sentCount
CurrentState_NoSent == ss

\* ss << "messages sent " << sentCount; currentState = ss.str()
CurrentState == ss \o <<"messages sent ">> \o Decimal(sentCount)

\* if (currentState == state) exit(1); state = currentState; sleep_for(1min)
HeartbeatCompare ==
    /\ Alive /\ hbPc = "readSent"
    /\ IF CurrentState = state
       THEN /\ exited' = "heartbeat"
            /\ UNCHANGED <<hbPc, state, hist>>
       ELSE /\ state' = CurrentState
            /\ hbPc' = "check"
            /\ exited' = exited
            /\ hist' = [hist EXCEPT !.snapR = hist.readR, !.snapS = sentCount,
                                    !.readR = -1]
    /\ ss' = <<>>
    /\ UNCHANGED <<cfgVars, qm, atomicVars, queue, runVars, timerPc,
                   senderVars, transportVars>>

\* ----------------------------------------------------------- dispatch loop
\* Json::Value msg = queueManager.pop();
SenderPop ==
    /\ Alive /\ senderPc = "pop"
    /\ msg' = QueueFront(queue)
    /\ queue' = QueuePopped(queue)
    /\ senderPc' = "checkStop"
    /\ hist' = IF QueueFront(queue) = Null THEN hist
               ELSE [hist EXCEPT !.popLog = Append(@, QueueFront(queue))]
    /\ UNCHANGED <<cfgVars, qm, atomicVars, runVars, timerPc, hbVars,
                   transportVars, exited>>

\* (variant) a loop body without the stop check after the pop
SenderBreaks_Never == FALSE

\* the condition of the first `if (stop) break;`
SenderBreaks == stop

\* (variant) a loop body that passes the empty marker on
SenderSkipsEmpty_Never == FALSE

\* the condition of `if (msg.isNull()) continue;`
SenderSkipsEmpty == msg = Null

\* if (stop) break; if (msg.isNull()) continue;
\* if (_onBotMessageCallback && _onBotMessageCallback(msg, verbose, throttled)) : the call
SenderCheckStop ==
    /\ Alive /\ senderPc = "checkStop"
    /\ IF SenderBreaks
       THEN /\ senderPc' = "done"
            /\ hist' = [hist EXCEPT !.discarded = IF msg = Null THEN @ ELSE @ + 1]
            /\ msg' = Null
       ELSE IF SenderSkipsEmpty
       THEN /\ senderPc' = "pop"
            /\ UNCHANGED <<msg, hist>>
       ELSE IF callbackSet
       THEN /\ senderPc' = "inSink"
            /\ hist' = [hist EXCEPT !.sinkCalls = @ + 1,
                                    !.sinkLog = Append(@, msg)]
            /\ msg' = msg
       ELSE /\ senderPc' = "checkStop2"
            /\ hist' = [hist EXCEPT !.unhandled = @ + 1]
            /\ msg' = msg
    /\ UNCHANGED <<cfgVars, qm, atomicVars, queue, runVars, timerPc, hbVars,
                   transportVars, exited>>

\* the sink writes the `throttled` reference it was given
SinkSetThrottled(b) ==
    /\ Alive /\ senderPc = "inSink"
    /\ throttled # b
    /\ throttled' = b
    /\ hist' = [hist EXCEPT !.throttledEver = @ \/ b, !.lateAdmits = 0]
    /\ UNCHANGED <<cfgVars, qm, sentCount, receivedCount, stop, fatalCobraError,
                   queue, runVars, timerPc, hbVars, senderVars, transportVars,
                   exited>>

\* (variant) a loop that skips ++sentCount
AfterSink_NoInc(ok) == "checkStop2"

\* where the loop goes when the sink returns ok: to ++sentCount or to the else branch
AfterSink(ok) == IF ok THEN "inc" ELSE "checkStop2"

\* the sink returns
SinkReturn(ok) ==
    /\ Alive /\ senderPc = "inSink"
    /\ senderPc' = AfterSink(ok)
    /\ hist' = IF ok THEN [hist EXCEPT !.sinkTrue = @ + 1] ELSE hist
    /\ UNCHANGED <<cfgVars, qm, atomicVars, queue, runVars, timerPc, hbVars, msg,
                   transportVars, exited>>

\* the sink throws: nothing in the sender lambda catches, so the exception
\* leaves the thread function and std::terminate ends the process
SinkThrow ==
    /\ Alive /\ senderPc = "inSink"
    /\ senderPc' = "terminated"
    /\ exited' = "terminate"
    /\ UNCHANGED <<cfgVars, qm, atomicVars, queue, runVars, timerPc, hbVars, msg,
                   transportVars, hist>>

\* ++sentCount
SenderInc ==
    /\ Alive /\ senderPc = "inc"
    /\ sentCount' = sentCount + 1
    /\ senderPc' = "checkStop2"
    /\ UNCHANGED <<cfgVars, qm, receivedCount, stop, throttled, fatalCobraError,
                   queue, runVars, timerPc, hbVars, msg, transportVars,
                   exited, hist>>

\* if (stop) break;   (end of the loop body)
SenderCheckStop2 ==
    /\ Alive /\ senderPc = "checkStop2"
    /\ senderPc' = IF stop THEN "done" ELSE "pop"
    /\ msg' = Null
    /\ UNCHANGED <<cfgVars, qm, atomicVars, queue, runVars, timerPc, hbVars,
                   transportVars, exited, hist>>

\* --------------------------------------------------------------- transport
\* (variant) the AuthenticationError branch forgets to set the flag
SetsFatal_NoAuth(e) ==
    \/ e = "HandshakeError"
    \/ e = "SubscriptionError"

\* (variant) the Closed branch sets the flag too
SetsFatal_Closed(e) ==
    \/ e = "Closed"
    \/ e = "HandshakeError"
    \/ e = "AuthenticationError"
    \/ e = "SubscriptionError"

\* the branches of the event callback that execute `fatalCobraError = true`
SetsFatal(e) ==
    \/ e = "HandshakeError"
    \/ e = "AuthenticationError"
    \/ e = "SubscriptionError"

\* (variant) the subscribe issued on Open instead
Subscribes_OnOpen(e) == e = "Open"

\* the branch of the event callback that calls conn.subscribe
Subscribes(e) == e = "Authenticated"

\* the transport invokes the event callback with an event of type e, and the
\* callback runs its if / else-if chain on event->type
OnEvent(e) ==
    /\ Alive /\ connected /\ callbackRegistered /\ tPc = "idle"
    /\ e = "Authenticated" => hist.subscribes < MaxSubscribes
    /\ fatalCobraError' = (fatalCobraError \/ SetsFatal(e))
    /\ subscribed' = (subscribed \/ Subscribes(e))
    /\ hist' = [hist EXCEPT !.fatalDelivered = @ \/ (e \in FatalEvents),
                            !.subscribes = IF Subscribes(e) THEN @ + 1 ELSE @,
                            !.authEvents = IF e = "Authenticated" THEN @ + 1 ELSE @]
    /\ UNCHANGED <<cfgVars, qm, sentCount, receivedCount, stop, throttled, queue,
                   runVars, timerPc, hbVars, senderVars, connected,
                   callbackRegistered, tPc, inMsg, exited>>

\* (variant) a subscribe callback without the throttle check
DropInbound_Never == FALSE

\* the outcome of `if (throttled) return;`
DropInbound == throttled

\* the transport invokes the subscribe callback with the next inbound message:
\* if (throttled) { return; }
MsgCheckThrottled ==
    /\ Alive /\ connected /\ subscribed /\ tPc = "idle"
    /\ hist.nextMsg <= feed
    /\ IF DropInbound
       THEN /\ UNCHANGED <<tPc, inMsg>>
            /\ hist' = [hist EXCEPT !.nextMsg = @ + 1, !.dropped = @ + 1]
       ELSE /\ tPc' = "msgInc"
            /\ inMsg' = hist.nextMsg
            /\ hist' = [hist EXCEPT !.nextMsg = @ + 1]
    /\ UNCHANGED <<cfgVars, qm, atomicVars, queue, runVars, timerPc, hbVars,
                   senderVars, connected, callbackRegistered, subscribed,
                   exited>>

\* (variant) a subscribe callback that forgets to count the message
ReceivedAfterInc_Forgotten == receivedCount

\* the value ++receivedCount stores
ReceivedAfterInc == receivedCount + 1

\* ++receivedCount
MsgInc ==
    /\ Alive /\ tPc = "msgInc"
    /\ receivedCount' = ReceivedAfterInc
    /\ tPc' = "msgAdd"
    /\ hist' = [hist EXCEPT !.lateAdmits = IF throttled THEN @ + 1 ELSE @]
    /\ UNCHANGED <<cfgVars, qm, sentCount, stop, throttled, fatalCobraError, queue,
                   runVars, timerPc, hbVars, senderVars, connected,
                   callbackRegistered, subscribed, inMsg, exited>>

\* (variant) a subscribe callback that counts the message but does not add it
QueueAfterAdd_Forgotten == queue

\* the queue after queueManager.add(msg)
QueueAfterAdd == QueueAdd(queue, QueueCapacity, inMsg)

\* queueManager.add(msg)
MsgAdd ==
    /\ Alive /\ tPc = "msgAdd"
    /\ queue' = QueueAfterAdd
    /\ tPc' = "idle"
    /\ inMsg' = Null
    /\ hist' = [hist EXCEPT !.addLog = Append(@, inMsg),
                            !.evicted = IF Len(queue) >= QueueCapacity
                                        THEN @ + 1 ELSE @]
    /\ UNCHANGED <<cfgVars, qm, atomicVars, runVars, timerPc, hbVars, senderVars,
                   connected, callbackRegistered, subscribed, exited>>

\* ---------------------------------------------------------- specification
Orchestrator ==
    \/ SetEventCallback
    \/ SuperviseDone
    \/ SuperviseTick
    \/ Disconnect
    \/ SetStop
    \/ JoinTimer
    \/ JoinHeartbeat
    \/ JoinSender
    \/ Return

Timer == TimerLoop

Heartbeat ==
    \/ HeartbeatStart
    \/ HeartbeatCheck
    \/ HeartbeatReadReceived
    \/ HeartbeatCompare

Sender ==
    \/ SenderPop
    \/ SenderCheckStop
    \/ SenderInc
    \/ SenderCheckStop2

Sink ==
    \/ \E b \in BOOLEAN : SinkSetThrottled(b)
    \/ \E ok \in BOOLEAN : SinkReturn(ok)
    \/ SinkThrow

Transport ==
    \/ \E e \in EventTypes : OnEvent(e)
    \/ MsgCheckThrottled
    \/ MsgInc
    \/ MsgAdd

Next == Orchestrator \/ Timer \/ Heartbeat \/ Sender \/ Sink \/ Transport

Spec == Init /\ [][Next]_vars

\* The runs checked for termination: one-tick runs with a queue of one.
LiveInit ==
    /\ runtime = 1
    /\ enableHeartbeat \in BOOLEAN
    /\ maxQueueSize = 1
    /\ callbackSet = TRUE
    /\ feed = MaxLiveMsgs
    /\ InitProgram

\* Every thread that can take a step eventually takes one, a sink call that
\* does not throw returns, and a callback of the transport runs to its end.
Fairness ==
    /\ WF_vars(Orchestrator)
    /\ WF_vars(Timer)
    /\ WF_vars(Heartbeat)
    /\ WF_vars(Sender)
    /\ WF_vars(\E ok \in BOOLEAN : SinkReturn(ok))
    /\ WF_vars(MsgInc \/ MsgAdd)

LiveSpec == LiveInit /\ [][Next]_vars /\ Fairness

\* ------------------------------------------- the queue under concurrent use
\* QueueManager taken alone: MaxProducers threads call add() while one thread
\* calls pop().  Each operation locks the queue's mutex, works on the
\* container one step at a time, and unlocks.
botVars == <<cfgVars, atomicVars, runVars, timerPc, hbVars, senderVars,
             transportVars, exited, hist>>

\* thread p calls add() with the next message
QmAddCall(p) ==
    /\ p # Consumer /\ qm.pc[p] = "idle"
    /\ qm.next <= MaxQmAdds
    /\ qm' = [qm EXCEPT !.pc[p] = "lock", !.arg[p] = qm.next, !.next = @ + 1]
    /\ UNCHANGED <<botVars, queue>>

\* the consumer calls pop()
QmPopCall ==
    /\ qm.pc[Consumer] = "idle"
    /\ qm.pops < MaxQmPops
    /\ qm' = [qm EXCEPT !.pc[Consumer] = "lock", !.pops = @ + 1]
    /\ UNCHANGED <<botVars, queue>>

\* (variant) a lock that is granted while another thread holds it
QmLockFree_Always == TRUE

\* the mutex can be locked
QmLockFree == qm.holder = {}

\* thread t locks the mutex
QmAcquire(t) ==
    /\ qm.pc[t] = "lock"
    /\ QmLockFree
    /\ qm' = [qm EXCEPT !.holder = @ \cup {t},
                        !.pc[t] = IF t = Consumer THEN "take" ELSE "evict"]
    /\ UNCHANGED <<botVars, queue>>

\* add(): if size() == maxSize, evict the head first
QmAddEvict(p) ==
    /\ p # Consumer /\ qm.pc[p] = "evict"
    /\ queue' = IF Len(queue) >= QueueCapacity THEN Tail(queue) ELSE queue
    /\ qm' = [qm EXCEPT !.pc[p] = "push"]
    /\ UNCHANGED botVars

\* add(): insert at the tail; the add takes effect here
QmAddPush(p) ==
    /\ p # Consumer /\ qm.pc[p] = "push"
    /\ queue' = Append(queue, qm.arg[p])
    /\ qm' = [qm EXCEPT !.pc[p] = "unlock",
                        !.abs = QueueAdd(@, QueueCapacity, qm.arg[p])]
    /\ UNCHANGED botVars

\* pop(): remove and return the head, or return the empty marker; the pop
\* takes effect here
QmPopTake ==
    /\ qm.pc[Consumer] = "take"
    /\ queue' = IF queue = <<>> THEN queue ELSE Tail(queue)
    /\ qm' = [qm EXCEPT !.pc[Consumer] = "unlock",
                        !.res = IF queue = <<>> THEN Null ELSE Head(queue),
                        !.expect = QueueFront(qm.abs),
                        !.abs = QueuePopped(@)]
    /\ UNCHANGED botVars

\* thread t unlocks the mutex and its call returns
QmRelease(t) ==
    /\ qm.pc[t] = "unlock"
    /\ qm' = [qm EXCEPT !.holder = @ \ {t}, !.pc[t] = "idle", !.arg[t] = Null]
    /\ UNCHANGED <<botVars, queue>>

QmNext ==
    \/ \E p \in 1..MaxProducers : QmAddCall(p)
    \/ QmPopCall
    \/ \E t \in QmThreads : QmAcquire(t)
    \/ \E p \in 1..MaxProducers : QmAddEvict(p)
    \/ \E p \in 1..MaxProducers : QmAddPush(p)
    \/ QmPopTake
    \/ \E t \in QmThreads : QmRelease(t)

\* a queue of any capacity within the bounds, in a bot that is not running
QueueInit ==
    /\ runtime = 0
    /\ enableHeartbeat = FALSE
    /\ maxQueueSize \in 1..MaxQueueSize
    /\ callbackSet = FALSE
    /\ feed = 0
    /\ InitProgram

QueueSpec == QueueInit /\ [][QmNext]_vars

\* ------------------------------------------------------------------ claims
\* inbound messages handed to the subscribe callback so far
Delivered == hist.nextMsg - 1

\* sink invocations that have returned false
SinkFalse ==
    hist.sinkCalls - hist.sinkTrue - (IF senderPc \in {"inSink", "terminated"} THEN 1 ELSE 0)

\* the orchestrator has left the supervision loop
ShutdownStarted == pcRun \notin {"setEventCallback", "supervise"}

\* C1 as written: in every step taken while throttled is true (and stays
\* true), receivedCount is not incremented and nothing is added to the queue.
C1_Claim ==
    [][(throttled /\ throttled')
         => (receivedCount' = receivedCount /\ hist'.addLog = hist.addLog)]_vars

\* C1 as amended: an inbound message whose throttle check runs while throttled
\* is true is dropped (no increment, no enqueue, the callback returns); since
\* the last write of true to throttled at most one message has been counted,
\* the one whose check ran before that write.
C1_Throttle ==
    /\ [](hist.lateAdmits <= 1)
    /\ [](throttled /\ hist.lateAdmits = 1 => tPc # "msgInc")
    /\ [][(throttled /\ hist'.nextMsg # hist.nextMsg)
            => (/\ receivedCount' = receivedCount
                /\ queue' = queue
                /\ hist'.addLog = hist.addLog
                /\ tPc' = "idle")]_vars

\* C1 witness: throttled is true and an inbound message has been dropped by
\* the check, after an earlier one was counted.
C1_Witness ==
    /\ throttled
    /\ hist.dropped >= 1
    /\ receivedCount >= 1
    /\ tPc = "idle"

\* the premises of C2: a sink is registered, no fatal event, the sink never
\* returned false, throttled was never set and nothing was evicted
C2_Premises ==
    /\ callbackSet
    /\ ~fatalCobraError
    /\ SinkFalse = 0
    /\ ~hist.throttledEver
    /\ hist.evicted = 0

\* C2 as written: under the premises run() returns the number of inbound
\* messages delivered, whatever the interleaving.
C2_Claim ==
    (pcRun = "done" /\ C2_Premises) => retval = Delivered

\* C2 as amended: under the premises run() returns the number of delivered
\* messages minus those still queued, and those popped but dropped, when the
\* dispatch loop observed stop; so at most N, and N when none was left.
C2_SentAccounting ==
    (pcRun = "done" /\ C2_Premises)
        => /\ retval = Delivered - Len(queue) - hist.discarded
           /\ retval <= Delivered

\* C2 witness: a finished run under the premises in which every delivered
\* message was sent, and more than one was.
C2_Witness ==
    /\ pcRun = "done"
    /\ C2_Premises
    /\ Delivered >= 2
    /\ retval = Delivered

\* C3: a fatal event handed to the event callback sets fatalCobraError, the
\* flag never goes back to false, and a run that returns after it returns -1.
C3_FatalClassification ==
    /\ [](hist.fatalDelivered => fatalCobraError)
    /\ []((pcRun = "done" /\ hist.fatalDelivered) => retval = -1)
    /\ [][fatalCobraError => fatalCobraError']_vars

\* C3 witness: an unbounded run that returned -1 after a fatal event without
\* having sent anything.
C3_Witness ==
    /\ pcRun = "done"
    /\ runtime = Forever
    /\ hist.fatalDelivered
    /\ sentCount = 0
    /\ retval = -1

\* the run is over: run() returned, or the process was ended from inside
RunReturned == pcRun = "done"

\* C4 as written (for sink calls that return): once stop is set, run()
\* eventually returns.
C4_Claim == stop ~> (RunReturned \/ exited = "terminate")

\* C4 as amended: once stop is set, no thread stays blocked: eventually run()
\* returns after joining the three loops, each ended by its own stop check,
\* unless the process is ended first, by the watchdog's exit(1) (it may have
\* passed its stop check just before stop was set) or by a throwing sink.
C4_ShutdownTerminates ==
    /\ stop ~> (RunReturned \/ ~Alive)
    /\ [](timerPc = "done" => stop)
    /\ []((hbPc = "done" /\ enableHeartbeat) => stop)
    /\ [](senderPc = "done" => stop)
    /\ [](RunReturned => (timerPc = "done" /\ hbPc = "done" /\ senderPc = "done"))

\* C4 witness: run() has returned with the heartbeat enabled, after the
\* dispatch loop sent a message.
C4_Witness ==
    /\ RunReturned
    /\ enableHeartbeat
    /\ sentCount = 1
    /\ timerPc = "done" /\ hbPc = "done" /\ senderPc = "done"

C7_Claim == RunReturned => ((retval = -1) <=> hist.exitByFatal)

\* C7 as amended: run() returns -1 exactly when fatalCobraError is true at the
\* return, that is when a fatal event was delivered at any time of the run,
\* also after the supervision loop's last check; otherwise it returns the
\* final sentCount, which is >= 0 and is the number of sink invocations that
\* returned true.  sentCount changes only by the increment that follows a
\* true return.
C7_ReturnValue ==
    /\ [](RunReturned =>
            /\ (retval = -1) <=> fatalCobraError
            /\ (retval = -1) <=> hist.fatalDelivered
            /\ hist.exitByFatal => retval = -1
            /\ retval # -1 => (retval = sentCount /\ retval >= 0
                               /\ sentCount = hist.sinkTrue))
    /\ [](sentCount + (IF senderPc = "inc" THEN 1 ELSE 0) = hist.sinkTrue)
    /\ [][sentCount' # sentCount
            => (senderPc = "inc" /\ sentCount' = sentCount + 1)]_vars

\* C7 witness: a run that returned -1 although its supervision loop ended by
\* exhausting its ticks, after a message was sent.
C7_Witness ==
    /\ RunReturned
    /\ retval = -1
    /\ ~hist.exitByFatal
    /\ sentCount >= 1

\* C8: a bounded run that does not break on fatalCobraError makes exactly
\* `runtime` ticks before shutdown; an unbounded run starts shutdown only with
\* fatalCobraError true; a tick that finds fatalCobraError true leaves the
\* loop, so a loop left by the break made at most `runtime` ticks.
C8_Supervision ==
    /\ []((ShutdownStarted /\ runtime # Forever /\ ~hist.exitByFatal)
            => hist.ticks = runtime)
    /\ []((ShutdownStarted /\ runtime = Forever)
            => (fatalCobraError /\ hist.exitByFatal))
    /\ [](hist.exitByFatal
            => /\ ShutdownStarted /\ fatalCobraError /\ hist.ticks >= 1
               /\ runtime # Forever => hist.ticks <= runtime)
    /\ [](~ShutdownStarted => ~stop /\ connected)
    /\ [][(pcRun = "supervise" /\ fatalCobraError
             /\ <<pcRun, i, hist.ticks>>' # <<pcRun, i, hist.ticks>>)
            => pcRun' = "disconnect"]_vars

\* C8 witness: a two-tick run left at its first tick by a fatal event.
C8_Witness ==
    /\ runtime = 2
    /\ hist.exitByFatal
    /\ hist.ticks = 1
    /\ RunReturned

\* C9: a failed sink invocation leaves sentCount alone and does not end the
\* dispatch loop; the loop ends only by observing stop true.
C9_Claim ==
    /\ [](senderPc \in {"done", "terminated"} => stop)
    /\ [](exited # "terminate")
    /\ [][(senderPc = "inSink" /\ senderPc' # "inSink" /\ senderPc' # "inc")
            => (senderPc' = "checkStop2" /\ sentCount' = sentCount)]_vars

\* C10: the event callback's handling of a transient event changes none of
\* the flags, the counters or the queue (a step that changes one of them is
\* not the handling of a transient event); a run that was handed no fatal event
\* does not return -1, and does not leave an unbounded supervision loop.
C10_TransientEvents ==
    /\ [][~UNCHANGED <<fatalCobraError, stop, throttled, receivedCount,
                        sentCount, queue>>
            => ~(\E e \in TransientEvents : OnEvent(e))]_vars
    /\ [](~hist.fatalDelivered
            => /\ ~fatalCobraError
               /\ retval # -1
               /\ runtime = Forever => ~ShutdownStarted)

\* C10 witness: a transient event is handed to the event callback (handling
\* it is a step that leaves the state as it is, so this is also the state
\* after it) with a message queued, one sent and throttled set, in an
\* unbounded run that was handed no fatal event.
C10_Witness ==
    /\ ENABLED (\E e \in TransientEvents : OnEvent(e))
    /\ runtime = Forever
    /\ ~hist.fatalDelivered
    /\ queue # <<>>
    /\ sentCount >= 1
    /\ throttled

\* C11: the watchdog ends the process at a tick exactly when the counters it
\* reads at that tick are the ones of its previous snapshot; its first tick
\* only takes a snapshot; while the counters never decrease, equal snapshots
\* mean that receivedCount did not change between the two reads of it and
\* sentCount did not change between the two reads of it; only an enabled
\* watchdog that saw stop false takes a tick.
C11_HeartbeatStall ==
    /\ [][(hbPc = "readSent" /\ (exited' = "heartbeat" \/ hbPc' # hbPc))
            => /\ (exited' = "heartbeat")
                    <=> (hist.snapR = hist.readR /\ hist.snapS = sentCount)
               /\ exited' # "heartbeat"
                    => (state' # state /\ hist'.snapR = hist.readR
                        /\ hist'.snapS = sentCount /\ hbPc' = "check")]_vars
    /\ [](exited = "heartbeat"
            => /\ enableHeartbeat
               /\ hist.snapR >= 0 /\ hist.snapS >= 0
               /\ state # <<"na">>
               /\ hist.snapR = hist.readR /\ hist.snapS = sentCount)
    /\ []((hist.snapR = -1) <=> (state = <<"na">>))
    /\ [](hist.snapR <= receivedCount /\ hist.snapS <= sentCount
          /\ hist.readR <= receivedCount)
    /\ [](hbPc \in {"readReceived", "readSent"} => enableHeartbeat)

\* C11 witness: the watchdog ended the process at a tick after the one that
\* recorded one message received and one sent.
C11_Witness ==
    /\ exited = "heartbeat"
    /\ hist.snapR = 1 /\ hist.snapS = 1
    /\ receivedCount = 1 /\ sentCount = 1

\* the positions of the orchestrator, in the order of the statements of run()
RunOrder ==
    <<"setEventCallback", "supervise", "disconnect", "setStop", "joinTimer",
      "joinHeartbeat", "joinSender", "return", "done">>

\* the index of position p in RunOrder
RunIndex(p) == CHOOSE k \in 1..Len(RunOrder) : RunOrder[k] = p

\* C12: the orchestrator goes through disconnect, stop = true, join of the
\* progress logger, join of the watchdog, join of the dispatch loop and the
\* return, in that order and skipping none; stop is false until the
\* supervision loop is left and the transport disconnected, it is only ever
\* written true, and each join is passed only with its loop terminated, so
\* run() returns only with all three terminated.
C12_ShutdownOrder ==
    /\ [][pcRun' # pcRun
            => (pcRun # "done" /\ RunIndex(pcRun') = RunIndex(pcRun) + 1)]_vars
    /\ [][stop' # stop => (pcRun = "setStop" /\ stop' /\ ~connected)]_vars
    /\ [][connected' # connected
            => (pcRun = "disconnect" /\ ~connected' /\ ~stop)]_vars
    /\ [](stop <=> RunIndex(pcRun) >= RunIndex("joinTimer"))
    /\ [](connected <=> RunIndex(pcRun) <= RunIndex("disconnect"))
    /\ [](RunIndex(pcRun) >= RunIndex("joinHeartbeat") => timerPc = "done")
    /\ [](RunIndex(pcRun) >= RunIndex("joinSender") => hbPc = "done")
    /\ [](RunIndex(pcRun) >= RunIndex("return") => senderPc = "done")
    /\ [](RunReturned
            => (timerPc = "done" /\ hbPc = "done" /\ senderPc = "done"
                /\ stop /\ ~connected))

\* C12 witness: run() has returned from a run without heartbeat, with the
\* three loops terminated and a message left in the queue.
C12_Witness ==
    /\ RunReturned
    /\ ~enableHeartbeat
    /\ stop /\ ~connected
    /\ timerPc = "done" /\ hbPc = "done" /\ senderPc = "done"
    /\ queue # <<>>

RECURSIVE IsSubsequence(_, _)
\* s can be obtained from t by deleting elements
IsSubsequence(s, t) ==
    IF s = <<>> THEN TRUE
    ELSE IF t = <<>> THEN FALSE
    ELSE IF Head(s) = Head(t) THEN IsSubsequence(Tail(s), Tail(t))
    ELSE IsSubsequence(s, Tail(t))

\* no element occurs twice in s
NoDuplicates(s) == \A j, k \in 1..Len(s) : j # k => s[j] # s[k]

\* C13: the messages passed to the sink, in the order passed, are a
\* subsequence of the messages enqueued, in the order enqueued, with no
\* message passed twice (they are the first of the messages popped); the
\* queue holds a run of consecutive enqueued messages in enqueue order; and a
\* pop returns the head of the queue and removes it, or returns the empty
\* marker and leaves the empty queue as it is.
C13_Fifo ==
    /\ [](IsSubsequence(hist.sinkLog, hist.addLog))
    /\ [](NoDuplicates(hist.sinkLog) /\ NoDuplicates(hist.addLog))
    /\ [](IsSubsequence(hist.popLog, hist.addLog))
    /\ [](Len(hist.sinkLog) <= Len(hist.popLog)
          /\ hist.sinkLog = SubSeq(hist.popLog, 1, Len(hist.sinkLog)))
    /\ [](IsSubsequence(queue, hist.addLog)
          /\ \A k \in 1..(Len(queue) - 1) : queue[k + 1] = queue[k] + 1)
    /\ [](\A j \in 1..Len(hist.popLog) : \A k \in 1..Len(queue) :
             hist.popLog[j] < queue[k])
    /\ [][(senderPc = "pop" /\ senderPc' = "checkStop")
            => IF queue = <<>>
               THEN msg' = Null /\ queue' = <<>> /\ hist'.popLog = hist.popLog
               ELSE /\ msg' = Head(queue) /\ queue' = Tail(queue)
                    /\ \A k \in 1..Len(queue) : msg' <= queue[k]
                    /\ hist'.popLog = Append(hist.popLog, Head(queue))]_vars

\* C13 witness: with messages 1 and 2 enqueued, the pop returned 1, the
\* older one, which is now being passed to the sink while 2 is still queued.
C13_Witness ==
    /\ senderPc = "inSink"
    /\ msg = 1
    /\ queue = <<2>>
    /\ hist.addLog = <<1, 2>>
    /\ hist.sinkLog = <<1>>

\* C14: whenever the mutex is free the queue is what the operations that
\* took effect give when applied one at a time, each at one instant between
\* its call and its return; every pop returned what that sequential queue
\* returns; the queue never exceeds its capacity, also inside an operation;
\* at most one thread is inside the queue; and while an operation is in
\* progress some thread can take a step, a waiting thread being able to lock
\* whenever the mutex is free.
C14_Linearizable ==
    /\ (qm.holder = {}) => queue = qm.abs
    /\ qm.res = qm.expect
    /\ Len(queue) <= maxQueueSize
    /\ Cardinality(qm.holder) <= 1
    /\ \A t \in QmThreads :
          /\ (t \in qm.holder) <=> (qm.pc[t] \in {"evict", "push", "take", "unlock"})
          /\ (qm.pc[t] = "lock" /\ qm.holder = {}) => ENABLED QmAcquire(t)
    /\ (\E t \in QmThreads : qm.pc[t] # "idle") => ENABLED QmNext

\* C14 witness: a producer is between the eviction and the insertion of its
\* add, having found the queue full, while the other producer and the
\* consumer wait for the mutex.
C14_Witness ==
    /\ qm.pc[1] = "push"
    /\ qm.pc[2] = "lock"
    /\ qm.pc[Consumer] = "lock"
    /\ Len(queue) = maxQueueSize - 1
    /\ queue # qm.abs

\* C15: with enableHeartbeat false the watchdog returns at its first
\* statement: it never tests stop, never reads a counter, never takes a
\* snapshot and never ends the process; the join on it waits for nothing but
\* that return, which the watchdog can make at any time, whatever stop is.
C15_HeartbeatDisabled ==
    /\ [](~enableHeartbeat
            => /\ hbPc \in {"start", "done"}
               /\ ss = <<>> /\ state = <<"na">>
               /\ hist.readR = -1 /\ hist.snapR = -1 /\ hist.snapS = -1
               /\ exited # "heartbeat")
    /\ []((~enableHeartbeat /\ Alive /\ hbPc = "start") => ENABLED HeartbeatStart)
    /\ [][(~enableHeartbeat /\ hbPc' # hbPc)
            => (hbPc = "start" /\ hbPc' = "done")]_vars
    /\ []((~enableHeartbeat /\ Alive /\ pcRun = "joinHeartbeat" /\ hbPc = "done")
            => ENABLED JoinHeartbeat)

\* C15 witness: a run without heartbeat and without any traffic has joined
\* the watchdog and returned after two ticks.
C15_Witness ==
    /\ ~enableHeartbeat
    /\ RunReturned
    /\ hbPc = "done"
    /\ hist.ticks = 2
    /\ receivedCount = 0 /\ sentCount = 0

\* C16: every iteration of the dispatch loop starts with the pop, which is
\* followed by the stop check; an iteration that finds stop true there ends
\* the loop without a sink call, whatever was popped; one that finds stop
\* false and the empty marker goes to the next pop, which is again followed
\* by the stop check; the sink is called only from that point, with stop
\* seen false and a message that is not the empty marker.
C16_StepOrder ==
    /\ [][(senderPc = "pop" /\ senderPc' # senderPc)
            => senderPc' = "checkStop"]_vars
    /\ [][(senderPc = "checkStop" /\ senderPc' # senderPc)
            => /\ stop => (senderPc' = "done" /\ hist'.sinkLog = hist.sinkLog)
               /\ (~stop /\ msg = Null)
                    => (senderPc' = "pop" /\ hist'.sinkLog = hist.sinkLog)
               /\ (~stop /\ msg # Null /\ callbackSet)
                    => (senderPc' = "inSink"
                        /\ hist'.sinkLog = Append(hist.sinkLog, msg))]_vars
    /\ [][hist'.sinkLog # hist.sinkLog
            => (senderPc = "checkStop" /\ ~stop /\ msg # Null
                /\ senderPc' = "inSink")]_vars
    /\ [][(senderPc' = "inSink" /\ senderPc # "inSink")
            => (senderPc = "checkStop" /\ ~stop /\ msg # Null)]_vars
    /\ [](senderPc = "inSink" => msg # Null)
    /\ [](\A k \in 1..Len(hist.sinkLog) : hist.sinkLog[k] # Null)
    /\ [](Len(hist.sinkLog) = hist.sinkCalls)

\* C16 witness: the loop has ended at the stop check that follows a pop,
\* dropping the message just popped, after an earlier message went to the
\* sink.
C16_Witness ==
    /\ senderPc = "done"
    /\ hist.discarded = 1
    /\ hist.sinkLog = <<1>>
    /\ hist.popLog = <<1, 2>>

\* C17: as many subscribe requests have been issued as Authenticated events
\* were handed to the event callback, one by each of them and none by any
\* other event; the inbound handler is installed from the first of them on;
\* before it no inbound message is handled, receivedCount is 0 and the queue
\* is empty.
C17_Subscription ==
    /\ [](hist.subscribes = hist.authEvents)
    /\ [](subscribed <=> hist.authEvents >= 1)
    /\ [][hist'.subscribes # hist.subscribes
            => (/\ hist'.subscribes = hist.subscribes + 1
                /\ hist'.authEvents = hist.authEvents + 1
                /\ subscribed')]_vars
    /\ [](hist.authEvents = 0
            => /\ receivedCount = 0 /\ sentCount = 0
               /\ queue = <<>>
               /\ tPc = "idle" /\ inMsg = Null
               /\ Delivered = 0 /\ hist.addLog = <<>>)

\* C17 witness: after the one Authenticated event two inbound messages were
\* counted and are queued.
C17_Witness ==
    /\ hist.authEvents = 1
    /\ hist.subscribes = 1
    /\ subscribed
    /\ receivedCount = 2
    /\ queue = <<1, 2>>

\* C18: sentCount never exceeds receivedCount: the messages counted as sent
\* are among the sink calls that returned true, those among the messages
\* popped, those among the messages added, and every message added was
\* counted as received before its add; neither counter ever decreases.
C18_SentLeReceived ==
    /\ [](sentCount <= receivedCount)
    /\ [](/\ sentCount <= hist.sinkTrue
          /\ hist.sinkTrue <= hist.sinkCalls
          /\ hist.sinkCalls <= Len(hist.popLog)
          /\ Len(hist.popLog) <= Len(hist.addLog)
          /\ Len(hist.addLog) + (IF tPc = "msgAdd" THEN 1 ELSE 0) = receivedCount)
    /\ [][receivedCount' >= receivedCount /\ sentCount' >= sentCount]_vars

\* C18 witness: the second message has just been counted as sent while the
\* run goes on: both counters are 2.
C18_Witness ==
    /\ sentCount = 2
    /\ receivedCount = 2
    /\ senderPc = "checkStop2"
    /\ ~stop

\* the message the dispatch loop has popped and not yet looked at
InHand == IF senderPc = "checkStop" /\ msg # Null THEN 1 ELSE 0

\* the message counted as received whose add has not been made yet
AddPending == IF tPc = "msgAdd" THEN 1 ELSE 0

\* C19 as written: whenever no add and no sink call is in progress,
\* receivedCount is the sum of the messages queued, evicted, passed to the
\* sink and discarded on stop; and no message goes to the sink twice.
C19_Claim ==
    /\ (tPc # "msgAdd" /\ senderPc # "inSink")
          => receivedCount = Len(queue) + hist.evicted + hist.sinkCalls
                             + hist.discarded
    /\ NoDuplicates(hist.sinkLog)

\* C19 as amended: in every state receivedCount, less the message whose add
\* is pending, is the sum of the messages queued, evicted, passed to the
\* sink, discarded on stop, popped while no sink is registered (these never
\* reach a sink), and the one the dispatch loop holds between its pop and
\* its stop check; no message goes to the sink twice, and with no sink
\* registered none goes to it at all.
C19_Conservation ==
    /\ receivedCount - AddPending
          = Len(queue) + hist.evicted + hist.sinkCalls + hist.discarded
            + hist.unhandled + InHand
    /\ NoDuplicates(hist.sinkLog)
    /\ Len(hist.sinkLog) = hist.sinkCalls
    /\ callbackSet => hist.unhandled = 0
    /\ ~callbackSet => hist.sinkCalls = 0
    /\ Len(hist.popLog) = hist.sinkCalls + hist.discarded + hist.unhandled + InHand
    /\ Len(hist.addLog) = Len(hist.popLog) + Len(queue) + hist.evicted

\* C19 witness: of two messages received by a queue of one the first was
\* evicted and the second passed to the sink, whose call has returned.
C19_Witness ==
    /\ receivedCount = 2
    /\ hist.evicted = 1
    /\ hist.sinkLog = <<2>>
    /\ queue = <<>>
    /\ senderPc = "checkStop2"

\* what C20 says stays as it is: the messages enqueued, the sink calls made,
\* throttled and both counters
C20_Frozen ==
    UNCHANGED <<hist.addLog, hist.sinkCalls, throttled, receivedCount,
                sentCount, queue>>

\* C20 as written: from any state with throttled true and the queue empty
\* on, nothing is enqueued, the sink is not called, and throttled and both
\* counters keep their values.
C20_Claim == [][(throttled /\ queue = <<>>) => C20_Frozen]_vars

\* the dispatch loop holds no message and is not inside the sink, and the
\* subscribe callback is not between its throttle check and its add
C20_Quiescent ==
    /\ tPc = "idle"
    /\ \/ senderPc \in {"pop", "checkStop2", "done", "terminated"}
       \/ senderPc = "checkStop" /\ msg = Null

\* C20 as amended: throttled is written only during a sink call; from a
\* state with throttled true, the queue empty, no sink call in progress, no
\* message held by the dispatch loop and no inbound message past the
\* throttle check, every later state is such a state too: every inbound
\* message is dropped, nothing is enqueued, the sink is not called, and
\* throttled and both counters keep their values.
C20_ThrottleStuck ==
    /\ [][throttled' # throttled
            => (senderPc = "inSink" /\ senderPc' = "inSink")]_vars
    /\ [][(throttled /\ queue = <<>> /\ C20_Quiescent)
            => (/\ C20_Frozen
                /\ throttled' /\ queue' = <<>> /\ C20_Quiescent'
                /\ hist'.nextMsg - hist.nextMsg = hist'.dropped - hist.dropped)]_vars

\* C20 witness: with throttled set by the sink, the queue drained and the
\* loop polling, an inbound message has been dropped while the supervision
\* loop is still running.
C20_Witness ==
    /\ throttled /\ queue = <<>> /\ C20_Quiescent
    /\ senderPc = "pop"
    /\ hist.dropped = 1
    /\ sentCount = 1
    /\ ~ShutdownStarted

====
